---- MODULE Spec2Model ----
(***************************************************************************)
(* Model of torch/csrc/jit/import_source.cpp: the version header parser,   *)
(* the import preamble parser, the constant table accessor, the class      *)
(* namespace resolver and the two drivers import_methods and import_libs.  *)
(*                                                                         *)
(* A string is a sequence of characters, each character a one-symbol TLA+  *)
(* string; an identifier such as op_version_set or __torch__ is one        *)
(* symbol.  The lexer's output is a sequence of tokens; one DEF_BLOCK      *)
(* token stands for the tokens of one well-formed function definition and  *)
(* one CLASS_BLOCK token for those of one well-formed class definition,    *)
(* since their grammar belongs to the external parser.                     *)
(***************************************************************************)
EXTENDS Integers, Sequences, FiniteSets, TLC

VARIABLES
  driver,          \* "import_methods" or "import_libs": the entry point called
  class_qualifier, \* import_libs' class_qualifier argument (a dotted string)
  hdr,             \* the header statement the source text was written from
  units,           \* the body the source text was written from
  src,             \* the token stream of the source text
  hasCallback,     \* whether import_callback holds a function
  pos,             \* the lexer's position: src[pos] is L.cur()
  pc,              \* the driver's position
  status,          \* "running", "returned" or "failed" (an exception left the call)
  err,             \* the kind of the error that ended the call
  version,         \* the parsed version
  imports,         \* the set parseImports returned last
  cbLog,           \* the arguments of the import_callback invocations, in order
  events,          \* the calls made to the callback, the parser, the registry and the compiler, in order
  unitIdx,         \* 1 in import_methods; the iteration of import_libs' loop
  resolver,        \* the SourceResolver of the current unit (its identity)
  nextEnv,         \* the number of SourceResolvers built so far
  envLog,          \* the SourceResolvers built, in order
  definitions,     \* std::vector<Def> definitions
  resolvers,       \* std::vector<ResolverPtr> resolvers
  registry,        \* the global class type registry: qualified name -> compilation unit
  nextCu,          \* the number of CompilationUnits made so far
  created,         \* the ClassType::create calls, in order
  cuMethods,       \* the methods each fresh compilation unit holds
  modMethods,      \* the methods of the target module's compilation unit
  defineLog,       \* the define calls, in order
  constants,       \* ConstantTableValue::constants_
  field,           \* the field given to ConstantTableValue::attr
  attrResult,      \* what ConstantTableValue::attr did
  graph,           \* the constants inserted into the graph
  path,            \* the identifier resolved and the attributes selected after it
  chain            \* the values resolveValue and the attr calls returned, in order

vars == <<driver, class_qualifier, hdr, units, src, hasCallback, pos, pc, status, err,
          version, imports, cbLog, events, unitIdx, resolver, nextEnv, envLog,
          definitions, resolvers, registry, nextCu, created, cuMethods, modMethods,
          defineLog, constants, field, attrResult, graph, path, chain>>

driverVars == <<driver, class_qualifier, hdr, units, src, hasCallback, pos, pc, status, err,
                version, imports, cbLog, events, unitIdx, resolver, nextEnv, envLog,
                definitions, resolvers, nextCu, created, cuMethods, modMethods,
                defineLog>>

constVars == <<constants, field, attrResult, graph>>

(***************************************************************************)
(* Bounds                                                                  *)
(***************************************************************************)
MaxUnits == 2      \* definitions or classes in one source text
MaxImports == 2    \* import lines in one source text
MaxFieldLen == 3   \* characters in a field name
MaxTable == 2      \* entries in a constant table
MaxChain == 3      \* attribute accesses in one namespace chain

(***************************************************************************)
(* Strings                                                                 *)
(***************************************************************************)
RECURSIVE SeqsUpTo(_, _)
SeqsUpTo(S, n) ==
  IF n = 0 THEN {<<>>}
  ELSE LET shorter == SeqsUpTo(S, n - 1)
       IN  shorter \cup {Append(s, x) : s \in {t \in shorter : Len(t) = n - 1}, x \in S}

\* The byte value of a character, for the order of std::set<std::string>.
CharCode(c) ==
  CASE c = " " -> 32 [] c = "+" -> 43 [] c = "-" -> 45 [] c = "." -> 46
    [] c = "0" -> 48 [] c = "1" -> 49 [] c = "2" -> 50 [] c = "9" -> 57
    [] c = "a" -> 97 [] c = "b" -> 98 [] c = "c" -> 99 [] c = "x" -> 120
    [] OTHER -> 95

RECURSIVE StrLess(_, _)
StrLess(s, t) ==
  IF t = <<>> THEN FALSE
  ELSE IF s = <<>> THEN TRUE
  ELSE IF CharCode(Head(s)) # CharCode(Head(t)) THEN CharCode(Head(s)) < CharCode(Head(t))
  ELSE StrLess(Tail(s), Tail(t))

\* The elements of a std::set<std::string> in iteration order.
RECURSIVE SetOrder(_)
SetOrder(S) ==
  IF S = {} THEN <<>>
  ELSE LET m == CHOOSE x \in S : \A y \in S \ {x} : StrLess(x, y)
       IN  <<m>> \o SetOrder(S \ {m})

(***************************************************************************)
(* Tokens and the lexer                                                    *)
(***************************************************************************)
Tok(kind, text, defs) == [kind |-> kind, text |-> text, defs |-> defs]
Ident(text) == Tok("TK_IDENT", text, <<>>)
Number(text) == Tok("TK_NUMBER", text, <<>>)
Newline == Tok("TK_NEWLINE", <<>>, <<>>)
Eof == Tok("TK_EOF", <<>>, <<>>)

\* L.cur(): the token at the lexer's position, TK_EOF once the text is used up.
Cur(toks, p) == IF p > Len(toks) THEN Eof ELSE toks[p]

(***************************************************************************)
(* The source texts: a header statement and a body of units, each an       *)
(* import preamble and one definition, written out as tokens.              *)
(***************************************************************************)
Digit == <<"0", "1", "2", "3", "4", "5", "6", "7", "8", "9">>

RECURSIVE DigitsOf(_)
DigitsOf(n) == IF n < 10 THEN <<Digit[n + 1]>> ELSE Append(DigitsOf(n \div 10), Digit[(n % 10) + 1])

RhsToken(rhs) ==
  CASE rhs.kind = "int" -> Number(DigitsOf(rhs.v))
    [] rhs.kind = "float" -> Number(DigitsOf(rhs.v) \o <<".", "5">>)
    [] OTHER -> Ident(<<"x">>)

HeaderTokens(h) ==
  <<Ident(h.name)>> \o (IF h.eq THEN <<Tok("=", <<"=">>, <<>>)>> ELSE <<>>)
    \o <<RhsToken(h.rhs)>> \o (IF h.nl THEN <<Newline>> ELSE <<>>)

\* An import line is the sequence of the texts of its tokens.
LineTokens(line) ==
  <<Tok("TK_IMPORT", <<"import">>, <<>>)>>
    \o [i \in 1..Len(line) |->
          IF line[i] = <<".">> THEN Tok(".", <<".">>, <<>>) ELSE Ident(line[i])]
    \o <<Newline>>

RECURSIVE PreambleTokens(_)
PreambleTokens(pre) ==
  IF pre = <<>> THEN <<>> ELSE LineTokens(Head(pre)) \o PreambleTokens(Tail(pre))

PayloadTokens(y) ==
  CASE y.kind = "def" -> <<Tok("DEF_BLOCK", y.name, <<>>)>>
    [] y.kind = "class" -> <<Tok("CLASS_BLOCK", y.name, y.defs)>>
    [] y.kind = "bad" -> <<Ident(<<"x">>), Newline>>
    [] OTHER -> <<>>

RECURSIVE BodyTokens(_)
BodyTokens(us) ==
  IF us = <<>> THEN <<>>
  ELSE PreambleTokens(Head(us).pre) \o PayloadTokens(Head(us).pay) \o BodyTokens(Tail(us))

SourceTokens(h, us) == HeaderTokens(h) \o BodyTokens(us)

RECURSIVE Concat(_)
Concat(texts) == IF texts = <<>> THEN <<>> ELSE Head(texts) \o Concat(Tail(texts))

\* The dependency strings written in a preamble.
PreambleStrings(pre) == {Concat(pre[i]) : i \in 1..Len(pre)}

ValidHeader(h) == h.name = <<"op_version_set">> /\ h.eq /\ h.rhs.kind = "int" /\ h.nl

Headers ==
  [name : {<<"op_version_set">>, <<"version">>}, eq : BOOLEAN,
   rhs : [kind : {"int", "float", "ident"}, v : {1}] \cup [kind : {"int"}, v : {0, 12}],
   nl : BOOLEAN]

StdHeader == [name |-> <<"op_version_set">>, eq |-> TRUE, rhs |-> [kind |-> "int", v |-> 1], nl |-> TRUE]

GoodLines == {<< <<"a">> >>, << <<"b">>, <<".">>, <<"c">> >>}
EmptyLine == <<>>

Payload(kind, name, defs) == [kind |-> kind, name |-> name, defs |-> defs]
BadPayload == Payload("bad", <<>>, <<>>)
NoPayload == Payload("none", <<>>, <<>>)
GoodPayloads(d) ==
  IF d = "import_methods"
  THEN {Payload("def", <<"f">>, <<>>), Payload("def", <<"g">>, <<>>)}
  ELSE {Payload("class", <<"A">>, << <<"f">> >>), Payload("class", <<"B">>, << <<"f">>, <<"g">> >>)}

GoodUnits(d, left) == [pre : SeqsUpTo(GoodLines, left), pay : GoodPayloads(d)]

\* The units parsing stops at: a rejected statement, the end of the text after a
\* preamble, an import line without a name.  What follows them is never read.
LastUnits(left) ==
  ([pre : SeqsUpTo(GoodLines, left), pay : {BadPayload}]
     \cup [pre : SeqsUpTo(GoodLines, left) \ {<<>>}, pay : {NoPayload}])
  \cup (IF left = 0 THEN {}
        ELSE {[pre |-> Append(p, EmptyLine), pay |-> NoPayload] : p \in SeqsUpTo(GoodLines, left - 1)})

\* The bodies of at most n units and at most `left` import lines.
RECURSIVE Bodies(_, _, _)
Bodies(d, n, left) ==
  IF n = 0 THEN {<<>>}
  ELSE {<<>>}
       \cup {<<u>> : u \in LastUnits(left)}
       \cup UNION {{<<u>> \o rest : rest \in Bodies(d, n - 1, left - Len(u.pre))} : u \in GoodUnits(d, left)}

Drivers == {"import_methods", "import_libs"}
Qualifiers == {<<"__torch__">>, <<"__torch__", ".", "m">>}
OldMethods == << <<"old">> >>

(***************************************************************************)
(* parseVersionNumber                                                      *)
(***************************************************************************)
\* Const::isIntegral: the literal has no fraction and no exponent.
IsIntegral(text) == \A i \in 1..Len(text) : text[i] \notin {".", "e", "E"}

DigitVal(c) == CHOOSE d \in 0..9 : Digit[d + 1] = c

\* Const::asIntegral: the value of a decimal literal.
RECURSIVE AsIntegral(_)
AsIntegral(text) ==
  IF text = <<>> THEN 0
  ELSE 10 * AsIntegral(SubSeq(text, 1, Len(text) - 1)) + DigitVal(text[Len(text)])

Thrown(e, p) == [ok |-> FALSE, version |-> 0, pos |-> p, err |-> e]

\* A parseVersionNumber without the check of the assigned name.
parseVersionNumberAnyName(toks, p) ==
  IF Cur(toks, p).kind # "TK_IDENT" THEN Thrown("expected TK_IDENT", p)
  ELSE IF Cur(toks, p + 1).kind # "=" THEN Thrown("expected '='", p + 1)
  ELSE IF Cur(toks, p + 2).kind # "TK_NUMBER" THEN Thrown("expected TK_NUMBER", p + 2)
  ELSE IF Cur(toks, p + 3).kind # "TK_NEWLINE" THEN Thrown("expected TK_NEWLINE", p + 3)
  ELSE IF ~IsIntegral(Cur(toks, p + 2).text)
       THEN Thrown("expected an integral version", p + 4)
  ELSE [ok |-> TRUE, version |-> AsIntegral(Cur(toks, p + 2).text), pos |-> p + 4, err |-> ""]

parseVersionNumber(toks, p) ==
  IF Cur(toks, p).kind # "TK_IDENT" THEN Thrown("expected TK_IDENT", p)
  ELSE IF Cur(toks, p + 1).kind # "=" THEN Thrown("expected '='", p + 1)
  ELSE IF Cur(toks, p + 2).kind # "TK_NUMBER" THEN Thrown("expected TK_NUMBER", p + 2)
  ELSE IF Cur(toks, p + 3).kind # "TK_NEWLINE" THEN Thrown("expected TK_NEWLINE", p + 3)
  ELSE IF Cur(toks, p).text # <<"op_version_set">>
       THEN Thrown("expected an assignment to op_version_set", p + 4)
  ELSE IF ~IsIntegral(Cur(toks, p + 2).text)
       THEN Thrown("expected an integral version", p + 4)
  ELSE [ok |-> TRUE, version |-> AsIntegral(Cur(toks, p + 2).text), pos |-> p + 4, err |-> ""]

\* The errors of a malformed header.
MalformedHeader ==
  {"expected TK_IDENT", "expected '='", "expected TK_NUMBER", "expected TK_NEWLINE",
   "expected an assignment to op_version_set", "expected an integral version"}

(***************************************************************************)
(* parseImports                                                            *)
(***************************************************************************)
\* The inner loop: the texts of the tokens up to the TK_NEWLINE, concatenated.
\* Every import line of the source texts ends in a TK_NEWLINE.
RECURSIVE ScanLine(_, _, _)
ScanLine(toks, p, s) ==
  IF Cur(toks, p).kind = "TK_NEWLINE" THEN [str |-> s, pos |-> p]
  ELSE ScanLine(toks, p + 1, s \o Cur(toks, p).text)

RECURSIVE ParseImportsFrom(_, _, _)
ParseImportsFrom(toks, p, acc) ==
  IF Cur(toks, p).kind # "TK_IMPORT" THEN [ok |-> TRUE, imports |-> acc, pos |-> p, err |-> ""]
  ELSE LET line == ScanLine(toks, p + 1, <<>>)
       IN  IF line.str = <<>>
           THEN [ok |-> FALSE, imports |-> acc, pos |-> line.pos + 1, err |-> "AT_ASSERT"]
           ELSE ParseImportsFrom(toks, line.pos + 1, acc \cup {line.str})

\* A parseImports that returns after its first import line.
parseImportsFirstOnly(toks, p) ==
  IF Cur(toks, p).kind # "TK_IMPORT" THEN [ok |-> TRUE, imports |-> {}, pos |-> p, err |-> ""]
  ELSE LET line == ScanLine(toks, p + 1, <<>>)
       IN  IF line.str = <<>>
           THEN [ok |-> FALSE, imports |-> {}, pos |-> line.pos + 1, err |-> "AT_ASSERT"]
           ELSE [ok |-> TRUE, imports |-> {line.str}, pos |-> line.pos + 1, err |-> ""]

parseImports(toks, p) == ParseImportsFrom(toks, p, {})

\* The loop over the imports: the callback's arguments, in the set's order.
CallbackArgs(imps, has) == IF has THEN SetOrder(imps) ELSE <<>>

(***************************************************************************)
(* The external parser, registry and compiler                              *)
(***************************************************************************)
\* Parser::parseFunction: the definition at the lexer's position, or an error.
parseFunction(toks, p) ==
  IF Cur(toks, p).kind = "DEF_BLOCK"
  THEN [ok |-> TRUE, def |-> Cur(toks, p).text, pos |-> p + 1]
  ELSE [ok |-> FALSE, def |-> <<>>, pos |-> p]

\* Parser::parseClass: the class definition at the lexer's position, or an error.
parseClass(toks, p) ==
  IF Cur(toks, p).kind = "CLASS_BLOCK"
  THEN [ok |-> TRUE, name |-> Cur(toks, p).text, defs |-> Cur(toks, p).defs, pos |-> p + 1]
  ELSE [ok |-> FALSE, name |-> <<>>, defs |-> <<>>, pos |-> p]

\* QualifiedName::createFromDotted: the segments of a dotted string.
RECURSIVE SplitDotted(_, _, _)
SplitDotted(s, seg, acc) ==
  IF s = <<>> THEN Append(acc, seg)
  ELSE IF Head(s) = "." THEN SplitDotted(Tail(s), <<>>, Append(acc, seg))
  ELSE SplitDotted(Tail(s), Append(seg, Head(s)), acc)

createFromDotted(s) == SplitDotted(s, <<>>, <<>>)

\* QualifiedName::create(base, name): one more segment.
createQualified(base, name) == Append(base, name)

\* ClassType::get: the registered type, or none.
ClassTypeGet(reg, qn) == IF qn \in DOMAIN reg THEN reg[qn] ELSE 0

\* ClassType::create: the new type is registered under its qualified name.
ClassTypeCreate(reg, qn, cu) == [x \in DOMAIN reg \cup {qn} |-> IF x = qn THEN cu ELSE reg[x]]

\* CompilationUnit::define: all of the batch is added to the unit, or none is.
CompilerDefine(methods, defs, ok) == IF ok THEN methods \o defs ELSE methods

(***************************************************************************)
(* The drivers: import_methods and import_libs                             *)
(***************************************************************************)
NoRegistry == [x \in {} |-> 0]

Event(ev, unit, arg) == [ev |-> ev, unit |-> unit, arg |-> arg]

\* The body read when the header is not the standard one.
ProbeBody(d) ==
  <<[pre |-> << << <<"a">> >> >>, pay |-> CHOOSE y \in GoodPayloads(d) : y.name \in {<<"f">>, <<"A">>}]>>

Inputs(d) ==
  {[hdr |-> StdHeader, units |-> b] : b \in Bodies(d, MaxUnits, MaxImports)}
    \cup {[hdr |-> h, units |-> ProbeBody(d)] : h \in Headers}

NoResult == [kind |-> "none", err |-> "", offset |-> 0, size |-> 0, value |-> ""]

IdleConst == constants = <<>> /\ field = <<>> /\ attrResult = NoResult /\ graph = <<>>
IdleChain == path = <<>> /\ chain = <<>>

Init ==
  /\ driver \in Drivers
  /\ class_qualifier \in (IF driver = "import_libs" THEN Qualifiers ELSE {<<>>})
  /\ \E in \in Inputs(driver) : hdr = in.hdr /\ units = in.units
  /\ src = SourceTokens(hdr, units)
  /\ hasCallback \in BOOLEAN
  /\ pos = 1
  /\ pc = "version"
  /\ status = "running"
  /\ err = ""
  /\ version = 0
  /\ imports = {}
  /\ cbLog = <<>>
  /\ events = <<>>
  /\ unitIdx = IF driver = "import_methods" THEN 1 ELSE 0
  /\ resolver = 0
  /\ nextEnv = 0
  /\ envLog = <<>>
  /\ definitions = <<>>
  /\ resolvers = <<>>
  /\ registry = NoRegistry
  /\ nextCu = 0
  /\ created = <<>>
  /\ cuMethods = <<>>
  /\ modMethods = OldMethods
  /\ defineLog = <<>>
  /\ IdleConst
  /\ IdleChain

\* An exception leaves the call.
Throw(e) == status' = "failed" /\ err' = e /\ pc' = "done"

\* std::make_shared<SourceResolver>: a new environment, told apart by its number.
NewResolverShared(n) == 1

NewResolver(n) == n + 1

\* A resolvers vector that misses the entry of the last definition.
ResolversForShort(defs, r) == [i \in 1..(Len(defs) - 1) |-> r]

\* import_libs' loop over class_def.defs(): one resolver entry per definition.
ResolversFor(defs, r) == [i \in 1..Len(defs) |-> r]

\* A definitions vector that grows at its front.
AddDefinitionFront(defs, d) == <<d>> \o defs

\* definitions.emplace_back(def)
AddDefinition(defs, d) == Append(defs, d)

\* A class name registered without its qualifier.
QualifiedClassNameBare(qualifier, name) == createFromDotted(name)

\* class_qualifier + "." + class_def.name().name(), as a qualified name.
QualifiedClassName(qualifier, name) == createFromDotted(qualifier \o <<".">> \o name)

\* const size_t version = parseVersionNumber(p.lexer());
ParseVersion ==
  /\ pc = "version"
  /\ LET r == parseVersionNumber(src, pos)
     IN  IF r.ok
         THEN /\ version' = r.version
              /\ pos' = r.pos
              /\ pc' = IF driver = "import_methods" THEN "imports" ELSE "loop"
              /\ UNCHANGED <<status, err>>
         ELSE /\ Throw(r.err)
              /\ UNCHANGED <<version, pos>>
  /\ UNCHANGED <<driver, class_qualifier, hdr, units, src, hasCallback, imports, cbLog, events,
                 unitIdx, resolver, nextEnv, envLog, definitions, resolvers, registry, nextCu,
                 created, cuMethods, modMethods, defineLog, constants, field, attrResult,
                 graph, path, chain>>

\* import_libs: while (p.lexer().cur().kind != TK_EOF)
LoopTest ==
  /\ pc = "loop"
  /\ IF Cur(src, pos).kind = "TK_EOF"
     THEN pc' = "done" /\ status' = "returned" /\ UNCHANGED unitIdx
     ELSE pc' = "imports" /\ unitIdx' = unitIdx + 1 /\ UNCHANGED status
  /\ UNCHANGED <<driver, class_qualifier, hdr, units, src, hasCallback, pos, err, version,
                 imports, cbLog, events, resolver, nextEnv, envLog, definitions, resolvers,
                 registry, nextCu, created, cuMethods, modMethods, defineLog, constants,
                 field, attrResult, graph, path, chain>>

\* const auto imports = parseImports(p.lexer());
ParseImports ==
  /\ pc = "imports"
  /\ LET r == parseImports(src, pos)
     IN  IF r.ok
         THEN /\ imports' = r.imports
              /\ pos' = r.pos
              /\ pc' = "callbacks"
              /\ UNCHANGED <<status, err>>
         ELSE /\ Throw(r.err)
              /\ UNCHANGED <<imports, pos>>
  /\ UNCHANGED <<driver, class_qualifier, hdr, units, src, hasCallback, version, cbLog, events,
                 unitIdx, resolver, nextEnv, envLog, definitions, resolvers, registry, nextCu,
                 created, cuMethods, modMethods, defineLog, constants, field, attrResult,
                 graph, path, chain>>

\* The loop over the imports, then the unit's SourceResolver and its empty vectors.
InvokeCallbacks ==
  /\ pc = "callbacks"
  /\ LET args == CallbackArgs(imports, hasCallback)
     IN  /\ cbLog' = cbLog \o args
         /\ events' = events \o [i \in 1..Len(args) |-> Event("callback", unitIdx, args[i])]
  /\ resolver' = NewResolver(nextEnv)
  /\ nextEnv' = nextEnv + 1
  /\ envLog' = Append(envLog, resolver')
  /\ definitions' = <<>>
  /\ resolvers' = <<>>
  /\ pc' = IF driver = "import_methods" THEN "defs" ELSE "class"
  /\ UNCHANGED <<driver, class_qualifier, hdr, units, src, hasCallback, pos, status, err,
                 version, imports, unitIdx, registry, nextCu, created, cuMethods, modMethods,
                 defineLog, constants, field, attrResult, graph, path, chain>>

\* import_methods: one turn of the loop that parses the definitions.
ParseFunction ==
  /\ pc = "defs"
  /\ Cur(src, pos).kind # "TK_EOF"
  /\ events' = Append(events, Event("parseFunction", unitIdx, <<>>))
  /\ LET r == parseFunction(src, pos)
     IN  IF r.ok
         THEN /\ definitions' = AddDefinition(definitions, r.def)
              /\ resolvers' = Append(resolvers, resolver)
              /\ pos' = r.pos
              /\ UNCHANGED <<pc, status, err>>
         ELSE /\ Throw("parse error")
              /\ UNCHANGED <<definitions, resolvers, pos>>
  /\ UNCHANGED <<driver, class_qualifier, hdr, units, src, hasCallback, version, imports, cbLog,
                 unitIdx, resolver, nextEnv, envLog, registry, nextCu, created, cuMethods,
                 modMethods, defineLog, constants, field, attrResult, graph, path, chain>>

\* import_methods: at the end of the text, the one define call on the module's unit.
DefineMethods ==
  /\ pc = "defs"
  /\ Cur(src, pos).kind = "TK_EOF"
  /\ events' = Append(events, Event("define", unitIdx, <<>>))
  /\ defineLog' = Append(defineLog, [unit |-> unitIdx, defs |-> definitions,
                                      resolvers |-> resolvers, self |-> <<"module">>])
  /\ \E ok \in BOOLEAN :
       /\ modMethods' = CompilerDefine(modMethods, definitions, ok)
       /\ IF ok THEN pc' = "done" /\ status' = "returned" /\ UNCHANGED err
                ELSE Throw("define error")
  /\ UNCHANGED <<driver, class_qualifier, hdr, units, src, hasCallback, pos, version, imports,
                 cbLog, unitIdx, resolver, nextEnv, envLog, definitions, resolvers, registry,
                 nextCu, created, cuMethods, constants, field, attrResult, graph, path, chain>>

\* import_libs: parseClass, the two vectors, the fresh compilation unit and
\* ClassType::create under the qualified class name.
ParseClass ==
  /\ pc = "class"
  /\ LET r == parseClass(src, pos)
         qn == QualifiedClassName(class_qualifier, r.name)
     IN  IF r.ok
         THEN /\ definitions' = r.defs
              /\ resolvers' = ResolversFor(r.defs, resolver)
              /\ pos' = r.pos
              /\ nextCu' = nextCu + 1
              /\ cuMethods' = Append(cuMethods, <<>>)
              /\ registry' = ClassTypeCreate(registry, qn, nextCu')
              /\ created' = Append(created, [unit |-> unitIdx, name |-> qn, cu |-> nextCu'])
              /\ events' = events \o <<Event("parseClass", unitIdx, <<>>),
                                       Event("create", unitIdx, <<>>)>>
              /\ pc' = "defineClass"
              /\ UNCHANGED <<status, err>>
         ELSE /\ Throw("parse error")
              /\ events' = Append(events, Event("parseClass", unitIdx, <<>>))
              /\ UNCHANGED <<definitions, resolvers, pos, nextCu, cuMethods, registry, created>>
  /\ UNCHANGED <<driver, class_qualifier, hdr, units, src, hasCallback, version, imports, cbLog,
                 unitIdx, resolver, nextEnv, envLog, modMethods, defineLog, constants, field,
                 attrResult, graph, path, chain>>

\* import_libs: cu->define(definitions, resolvers, self) for the class just
\* created; `late` are the arguments of callback invocations that follow it.
DefineClassStep(late) ==
  /\ pc = "defineClass"
  /\ events' = Append(events, Event("define", unitIdx, <<>>))
                 \o [i \in 1..Len(late) |-> Event("callback", unitIdx, late[i])]
  /\ cbLog' = cbLog \o late
  /\ defineLog' = Append(defineLog, [unit |-> unitIdx, defs |-> definitions,
                                      resolvers |-> resolvers, self |-> created[Len(created)].name])
  /\ \E ok \in BOOLEAN :
       /\ cuMethods' = [cuMethods EXCEPT ![nextCu] = CompilerDefine(@, definitions, ok)]
       /\ IF ok THEN pc' = "loop" /\ UNCHANGED <<status, err>>
                ELSE Throw("define error")
  /\ UNCHANGED <<driver, class_qualifier, hdr, units, src, hasCallback, pos, version, imports,
                 unitIdx, resolver, nextEnv, envLog, definitions, resolvers, registry,
                 nextCu, created, modMethods, constants, field, attrResult, graph, path, chain>>

\* An import_libs whose callback loop comes after the class is compiled.
DefineClassThenCallbacks == DefineClassStep(CallbackArgs(imports, hasCallback))

DefineClass == DefineClassStep(<<>>)

Next ==
  \/ ParseVersion
  \/ LoopTest
  \/ ParseImports
  \/ InvokeCallbacks
  \/ ParseFunction
  \/ DefineMethods
  \/ ParseClass
  \/ DefineClass

Spec == Init /\ [][Next]_vars

(***************************************************************************)
(* Properties of the drivers                                               *)
(***************************************************************************)
CountIn(seq, x) == Cardinality({i \in 1..Len(seq) : seq[i] = x})

\* The invocations of the callback made for unit u with argument s.
CountCb(u, s) ==
  Cardinality({i \in 1..Len(events) :
                 events[i].ev = "callback" /\ events[i].unit = u /\ events[i].arg = s})

IsCallback(e) == e.ev = "callback"

\* The dependency strings written anywhere in the source text.
AllStrings == UNION {PreambleStrings(units[i].pre) : i \in 1..Len(units)}

\* The preamble read for unit u: the one preamble of import_methods, the
\* preamble before the u-th class of import_libs.
PreambleOf(u) == IF u \in 1..Len(units) THEN units[u].pre ELSE <<>>

\* The callback loop of unit u has run.
CallbacksDone(u) == Len(envLog) >= u

ParseOrCompile == {"parseFunction", "parseClass", "create", "define"}

\* C2 as stated: no callback is invoked after a definition of the source text
\* has been parsed or submitted to the compiler.
C2_CallbacksFirst ==
  \A i, j \in 1..Len(events) :
    (i < j /\ events[i].ev \in ParseOrCompile) => events[j].ev # "callback"

\* C2 amended: every callback of a unit precedes the parsing and compiling of
\* that unit's definitions; in import_methods that is every callback of the
\* call, in import_libs a callback that follows a parsed or compiled class
\* belongs to the preamble of a later class.
C2_CallbacksBeforeOwnUnit ==
  /\ \A i, j \in 1..Len(events) :
       (i < j /\ events[i].ev \in ParseOrCompile /\ events[j].ev = "callback")
         => events[j].unit > events[i].unit
  /\ driver = "import_methods" =>
       \A i, j \in 1..Len(events) :
         (i < j /\ events[i].ev \in ParseOrCompile) => events[j].ev # "callback"

\* C2 witness: import_libs invoked the callback for the second class after the
\* first class was compiled.
C2_Witness ==
  /\ driver = "import_libs" /\ status = "returned"
  /\ \E i, j \in 1..Len(events) :
       /\ i < j
       /\ events[i].ev = "define" /\ events[i].unit = 1
       /\ events[j].ev = "callback" /\ events[j].unit = 2

\* C5: past the header, the version is the written V when the header is
\* `op_version_set = V NEWLINE` with V integral; for every other header the
\* call has failed with a malformed-header error and has parsed no import,
\* invoked no callback, registered no type and called no compiler.
C5_VersionGate ==
  pc # "version" =>
    IF ValidHeader(hdr)
    THEN version = hdr.rhs.v /\ ~(status = "failed" /\ err \in MalformedHeader)
    ELSE /\ status = "failed" /\ err \in MalformedHeader
         /\ imports = {} /\ cbLog = <<>> /\ events = <<>>
         /\ registry = NoRegistry /\ created = <<>> /\ defineLog = <<>>
         /\ modMethods = OldMethods /\ nextEnv = 0 /\ version = 0

\* C5 witness: a header with a non-integral version has failed the call.
C5_Witness ==
  /\ status = "failed" /\ err = "expected an integral version"
  /\ hdr.rhs.kind = "float" /\ hasCallback

\* The qualified name expected for the i-th class.
QualifierSegments ==
  IF class_qualifier = <<"__torch__">> THEN << <<"__torch__">> >>
  ELSE << <<"__torch__">>, <<"m">> >>

ExpectedName(i) == Append(QualifierSegments, units[i].pay.name)

\* The define call of class i has succeeded.
Completed(i) == i < unitIdx \/ (i = unitIdx /\ pc = "loop") \/ status = "returned"

\* The last class so far created under the name of class i.
LastWithName(i) ==
  CHOOSE j \in i..Len(created) :
    /\ created[j].name = created[i].name
    /\ \A k \in (j + 1)..Len(created) : created[k].name # created[i].name

CreatedRight ==
  /\ Len(created) <= Len(units)
  /\ \A i \in 1..Len(created) :
       /\ created[i].unit = i
       /\ created[i].name = ExpectedName(i)
       /\ \A k \in 1..Len(created) : k # i => created[k].cu # created[i].cu

\* C6 as stated: k class bodies leave k registered types, the i-th under
\* <class_qualifier>.<name i> in its own compilation unit, and when class j
\* fails every class before it is still registered with its methods.
C6_AllRegistered ==
  driver = "import_libs" =>
    /\ CreatedRight
    /\ status = "returned" =>
         Len(created) = Len(units) /\ Cardinality(DOMAIN registry) = Len(units)
    /\ status = "failed" =>
         \A i \in 1..Len(created) :
           i < unitIdx =>
             /\ created[i].name \in DOMAIN registry
             /\ registry[created[i].name] = created[i].cu
             /\ cuMethods[created[i].cu] = units[i].pay.defs

\* C6 amended: k class bodies make k registrations, the i-th under
\* <class_qualifier>.<name i> with its own fresh compilation unit; a name is
\* bound to the last class created under it, so a later class of the same name
\* replaces the earlier one; nothing is rolled back: every completed class
\* keeps all its methods in its compilation unit, also after a later class fails.
C6_NoRollback ==
  driver = "import_libs" =>
    /\ CreatedRight
    /\ status = "returned" => Len(created) = Len(units)
    /\ DOMAIN registry = {created[i].name : i \in 1..Len(created)}
    /\ \A i \in 1..Len(created) :
         /\ registry[created[i].name] = created[LastWithName(i)].cu
         /\ Completed(i) => cuMethods[created[i].cu] = units[i].pay.defs

\* C6 witness: the second class failed in the compiler and the first, of
\* another name, is still registered with its methods.
C6_Witness ==
  /\ driver = "import_libs" /\ status = "failed" /\ err = "define error"
  /\ unitIdx = 2 /\ Len(created) = 2
  /\ created[1].name # created[2].name
  /\ registry[created[1].name] = created[1].cu
  /\ cuMethods[created[1].cu] = units[1].pay.defs
  /\ units[1].pay.defs # <<>>

\* C7: once import_libs has ended, a class whose type is in the registry has
\* all of its methods compiled into its compilation unit.
C7_ClassAtomic ==
  (driver = "import_libs" /\ pc = "done") =>
    \A i \in 1..Len(created) :
      (created[i].name \in DOMAIN registry /\ registry[created[i].name] = created[i].cu)
        => cuMethods[created[i].cu] = units[i].pay.defs

IsDef(u) == u.pay.kind = "def"

\* The names of the definitions written in the source text, in order.
DefNames == [i \in 1..Len(SelectSeq(units, IsDef)) |-> SelectSeq(units, IsDef)[i].pay.name]

\* C9: import_methods calls define at most once, as the last thing it does,
\* only when the header, the preamble and every definition up to the end of
\* the text were parsed, and with the definitions in source order; when a
\* parse step fails define is not called and the module's methods are unchanged.
C9_DefineOnce ==
  driver = "import_methods" =>
    /\ Len(defineLog) <= 1
    /\ \A i \in 1..Len(events) : events[i].ev = "define" => i = Len(events)
    /\ Len(defineLog) = 1 =>
         /\ ValidHeader(hdr) /\ pos > Len(src)
         /\ \A i \in 1..Len(units) :
              units[i].pay.kind \in {"def", "none"} /\ (i > 1 => units[i].pre = <<>>)
         /\ defineLog[1].defs = DefNames
         /\ CountIn([i \in 1..Len(events) |-> events[i].ev], "parseFunction") = Len(DefNames)
    /\ (status = "failed" /\ err # "define error") => defineLog = <<>>
    /\ modMethods = IF status = "returned" THEN OldMethods \o DefNames ELSE OldMethods
    /\ status = "returned" => Len(defineLog) = 1

\* C9 witness: import_methods returned after defining g then f, in that order.
C9_Witness ==
  /\ driver = "import_methods" /\ status = "returned"
  /\ defineLog[1].defs = << <<"g">>, <<"f">> >>
  /\ modMethods = << <<"old">>, <<"g">>, <<"f">> >>

\* C10: in every define call the definitions and the resolvers have the same
\* length and every resolver entry is the environment built for that call's
\* unit; the environments of different units are different.
C10_Aligned ==
  /\ \A a, b \in 1..Len(envLog) : a # b => envLog[a] # envLog[b]
  /\ \A k \in 1..Len(defineLog) :
       LET c == defineLog[k]
       IN  /\ Len(c.defs) = Len(c.resolvers)
           /\ c.unit \in 1..Len(envLog)
           /\ \A i \in 1..Len(c.resolvers) : c.resolvers[i] = envLog[c.unit]
           /\ \A l \in 1..Len(defineLog) : l # k => defineLog[l].unit # c.unit
  /\ driver = "import_methods" => Len(envLog) <= 1

\* C10 witness: import_libs made two define calls, the second with two
\* definitions and two resolver entries.
C10_Witness ==
  /\ driver = "import_libs"
  /\ Len(defineLog) = 2
  /\ Len(defineLog[2].defs) = 2 /\ Len(defineLog[2].resolvers) = 2
  /\ defineLog[1].resolvers # <<>>
  /\ defineLog[1].resolvers[1] # defineLog[2].resolvers[1]

\* No driver is running.
IdleDriver ==
  /\ driver = "none" /\ class_qualifier = <<>> /\ hdr = StdHeader /\ units = <<>> /\ src = <<>>
  /\ hasCallback = FALSE /\ pos = 1 /\ pc = "idle" /\ status = "idle" /\ err = ""
  /\ version = 0 /\ imports = {} /\ cbLog = <<>> /\ events = <<>> /\ unitIdx = 0
  /\ resolver = 0 /\ nextEnv = 0 /\ envLog = <<>> /\ definitions = <<>> /\ resolvers = <<>>
  /\ nextCu = 0 /\ created = <<>> /\ cuMethods = <<>> /\ modMethods = OldMethods
  /\ defineLog = <<>>

(***************************************************************************)
(* ConstantTableValue::attr                                                *)
(***************************************************************************)
FieldChars == {"c", "a", "0", "1", "2", "-", "+", " "}
Fields == SeqsUpTo(FieldChars, MaxFieldLen)
Tensors == {"t0", "t1"}
Tables == SeqsUpTo(Tensors, MaxTable)

\* What the bytes after the terminator of an empty field may hold.
Garbage == {<<>>, <<"1">>, <<"a">>}

IsDigit(c) == c \in {"0", "1", "2", "3", "4", "5", "6", "7", "8", "9"}
IsSpace(c) == c = " "

\* The first index from i on whose character fails the test, Len(t) + 1 if none.
RECURSIVE SkipSpaces(_, _)
SkipSpaces(t, i) == IF i <= Len(t) /\ IsSpace(t[i]) THEN SkipSpaces(t, i + 1) ELSE i

RECURSIVE SkipDigits(_, _)
SkipDigits(t, i) == IF i <= Len(t) /\ IsDigit(t[i]) THEN SkipDigits(t, i + 1) ELSE i

RECURSIVE DigitsValue(_, _, _, _)
DigitsValue(t, i, j, acc) ==
  IF i >= j THEN acc ELSE DigitsValue(t, i + 1, j, 10 * acc + DigitVal(t[i]))

\* std::strtoll(t, &end, 10): leading white space, an optional sign, then
\* digits; without a digit nothing is converted and end is the start.  end is
\* the index of the first character not converted, Len(t) + 1 at the
\* terminator.  No field within MaxFieldLen reaches the range of int64_t.
Strtoll(t) ==
  LET i0 == SkipSpaces(t, 1)
      signed == i0 <= Len(t) /\ t[i0] \in {"+", "-"}
      i1 == IF signed THEN i0 + 1 ELSE i0
      j == SkipDigits(t, i1)
      mag == DigitsValue(t, i1, j, 0)
  IN  IF j = i1 THEN [value |-> 0, end |-> 1]
      ELSE [value |-> IF signed /\ t[i0] = "-" THEN 0 - mag ELSE mag, end |-> j]

InvalidSpecifier(f) ==
  [kind |-> "error", err |-> "invalid constant specifier", offset |-> 0, size |-> 0, value |-> ""]
OutOfBounds(offset, size) ==
  [kind |-> "error", err |-> "constant index out of bounds", offset |-> offset, size |-> size,
   value |-> ""]
SimpleValue(offset, size, value) ==
  [kind |-> "SimpleValue", err |-> "", offset |-> offset, size |-> size, value |-> value]

\* An attr that hands the whole field to strtoll.
attrWholeField(table, f, garbage) ==
  LET r == Strtoll(f)
  IN  IF Len(f) < 2 \/ r.end <= Len(f) THEN InvalidSpecifier(f)
      ELSE IF r.value < 0 \/ r.value >= Len(table) THEN OutOfBounds(r.value, Len(table))
      ELSE SimpleValue(r.value, Len(table), table[r.value + 1])

\* An attr that does not look at where strtoll stopped.
attrNoEndCheck(table, f, garbage) ==
  LET t == IF f = <<>> THEN garbage ELSE Tail(f)
      r == Strtoll(t)
  IN  IF Len(f) < 2 THEN InvalidSpecifier(f)
      ELSE IF r.value < 0 \/ r.value >= Len(table) THEN OutOfBounds(r.value, Len(table))
      ELSE SimpleValue(r.value, Len(table), table[r.value + 1])

\* ConstantTableValue::attr.  field_s + 1 is the field without its first
\* character; for an empty field it lies past the terminator, and what
\* strtoll reads there is any of Garbage.
attr(table, f, garbage) ==
  LET t == IF f = <<>> THEN garbage ELSE Tail(f)
      r == Strtoll(t)
  IN  IF Len(f) < 2 \/ r.end <= Len(t) THEN InvalidSpecifier(f)
      ELSE IF r.value < 0 \/ r.value >= Len(table) THEN OutOfBounds(r.value, Len(table))
      ELSE SimpleValue(r.value, Len(table), table[r.value + 1])

InitConst ==
  /\ IdleDriver
  /\ registry = NoRegistry
  /\ IdleChain
  /\ constants \in Tables
  /\ field = <<>>
  /\ attrResult = NoResult
  /\ graph = <<>>

\* One attribute access on the CONSTANTS value.
ConstAttr ==
  /\ attrResult = NoResult
  /\ \E f \in Fields, g \in Garbage :
       /\ field' = f
       /\ attrResult' = attr(constants, f, g)
       /\ graph' = IF attrResult'.kind = "SimpleValue" THEN Append(graph, attrResult'.value)
                   ELSE graph
  /\ UNCHANGED <<driverVars, registry, constants, path, chain>>

NextConst == ConstAttr

SpecConst == InitConst /\ [][NextConst]_vars

AllDigits(t) == \A i \in 1..Len(t) : IsDigit(t[i])
AllLetters(t) == \A i \in 1..Len(t) : t[i] \in {"a", "c"}

\* C3: with a table of N entries, field c<i> yields a simple value of the one
\* inserted constant, entry i, for i < N; a field c<n> with n >= N or c-<n>
\* with n > 0 fails with the out-of-bounds error that carries the offset and
\* N, also when N = 0; a c followed by letters fails as an invalid specifier.
C3_ConstantLookup ==
  (attrResult # NoResult /\ Len(field) >= 2 /\ Head(field) = "c") =>
    LET N == Len(constants)
        t == Tail(field)
    IN  /\ AllDigits(t) =>
             IF AsIntegral(t) < N
             THEN /\ attrResult = SimpleValue(AsIntegral(t), N, constants[AsIntegral(t) + 1])
                  /\ graph = <<constants[AsIntegral(t) + 1]>>
             ELSE attrResult = OutOfBounds(AsIntegral(t), N) /\ graph = <<>>
        /\ (Len(t) >= 2 /\ Head(t) = "-" /\ AllDigits(Tail(t)) /\ AsIntegral(Tail(t)) > 0) =>
             attrResult = OutOfBounds(0 - AsIntegral(Tail(t)), N) /\ graph = <<>>
        /\ AllLetters(t) => attrResult = InvalidSpecifier(field) /\ graph = <<>>

\* C3 witness: c1 on a table of two different entries returned the second.
C3_Witness ==
  /\ field = <<"c", "1">> /\ Len(constants) = 2 /\ constants[1] # constants[2]
  /\ attrResult.kind = "SimpleValue" /\ attrResult.value = constants[2]
  /\ graph = <<constants[2]>>

\* C4 as stated: a field shorter than 2 characters, or with anything but
\* decimal digits after its first character, fails as an invalid specifier
\* and inserts no constant.
C4_DigitsOnly ==
  (attrResult # NoResult /\ (Len(field) < 2 \/ ~AllDigits(Tail(field)))) =>
    attrResult = InvalidSpecifier(field) /\ graph = <<>>

\* The text strtoll converts in full: white space, an optional sign, then one
\* or more digits and nothing else.
SignedNumber(t) ==
  \E k \in 0..Len(t) :
    /\ \A i \in 1..k : IsSpace(t[i])
    /\ \E m \in {k, k + 1} :
         /\ m <= Len(t)
         /\ m = k + 1 => t[m] \in {"+", "-"}
         /\ m < Len(t)
         /\ \A i \in (m + 1)..Len(t) : IsDigit(t[i])

\* C4 amended: a field fails as an invalid specifier, and then inserts no
\* constant, exactly when it is shorter than 2 characters or the text after
\* its first character is not white space, an optional sign and one or more
\* decimal digits with nothing after them.
C4_StrtollForm ==
  attrResult # NoResult =>
    /\ attrResult = InvalidSpecifier(field) <=> (Len(field) < 2 \/ ~SignedNumber(Tail(field)))
    /\ attrResult = InvalidSpecifier(field) => graph = <<>>

\* C4 witness: digits followed by a letter were refused, and nothing was inserted.
C4_Witness ==
  /\ field = <<"c", "1", "a">> /\ Len(constants) = 2
  /\ attrResult = InvalidSpecifier(field) /\ graph = <<>>

(***************************************************************************)
(* SourceResolver::resolveValue and ClassNamespaceValue::attr              *)
(***************************************************************************)
Value(kind, name, type) == [kind |-> kind, name |-> name, type |-> type]
Nullptr == Value("nullptr", <<>>, 0)
ClassNamespaceValue(qn) == Value("Class Namespace", qn, 0)
ClassValue(qn, type) == Value("ClassValue", qn, type)

\* The keys of SourceResolver::env_.
EnvKeys == {<<"torch">>, <<"ops">>, <<"CONSTANTS">>, <<"fork">>, <<"annotate">>, <<"inf">>, <<"nan">>}

\* SourceResolver::env_: the value kept under each key.
Env(name) ==
  CASE name = <<"torch">> -> Value("BuiltinModule", << <<"aten">> >>, 0)
    [] name = <<"ops">> -> Value("ops", <<>>, 0)
    [] name = <<"CONSTANTS">> -> Value("CONSTANTS", <<>>, 0)
    [] name = <<"fork">> -> Value("fork", <<>>, 0)
    [] name = <<"annotate">> -> Value("annotate", <<>>, 0)
    [] name = <<"inf">> -> Value("constant", << <<"inf">> >>, 0)
    [] name = <<"nan">> -> Value("constant", << <<"nan">> >>, 0)

resolveValue(name) ==
  IF name \in EnvKeys THEN Env(name)
  ELSE IF name = <<"__torch__">> THEN ClassNamespaceValue(<<name>>)
  ELSE Nullptr

\* An attr that looks the attribute up without the namespace's name before it.
namespaceAttrUnqualified(reg, basename, name) ==
  IF ClassTypeGet(reg, <<name>>) # 0
  THEN ClassValue(<<name>>, ClassTypeGet(reg, <<name>>))
  ELSE ClassNamespaceValue(createQualified(basename, name))

\* ClassNamespaceValue::attr
namespaceAttr(reg, basename, name) ==
  LET fullName == createQualified(basename, name)
  IN  IF ClassTypeGet(reg, fullName) # 0
      THEN ClassValue(fullName, ClassTypeGet(reg, fullName))
      ELSE ClassNamespaceValue(fullName)

\* The qualified names that may be registered, and the type kept under each.
Registrable ==
  {<< <<"__torch__">>, <<"A">> >>, << <<"__torch__">>, <<"A">>, <<"B">> >>,
   << <<"__torch__">>, <<"B">> >>, << <<"A">> >>}
TypeOf(qn) == Len(qn) * 10 + (IF qn[Len(qn)] = <<"A">> THEN 1 ELSE 2)

ResolveNames == EnvKeys \cup {<<"__torch__">>, <<"A">>}
AttrNames == {<<"A">>, <<"B">>, <<"C">>}

InitNs ==
  /\ IdleDriver
  /\ IdleConst
  /\ \E S \in SUBSET Registrable : registry = [qn \in S |-> TypeOf(qn)]
  /\ path = <<>>
  /\ chain = <<>>

\* The compiler resolves an identifier.
ResolveValue ==
  /\ path = <<>>
  /\ \E name \in ResolveNames :
       /\ path' = <<name>>
       /\ chain' = <<resolveValue(name)>>
  /\ UNCHANGED <<driverVars, registry, constVars>>

\* The compiler selects an attribute of the class namespace it holds.
NamespaceAttr ==
  /\ chain # <<>>
  /\ chain[Len(chain)].kind = "Class Namespace"
  /\ Len(path) <= MaxChain
  /\ \E name \in AttrNames :
       /\ path' = Append(path, name)
       /\ chain' = Append(chain, namespaceAttr(registry, chain[Len(chain)].name, name))
  /\ UNCHANGED <<driverVars, registry, constVars>>

NextNs == ResolveValue \/ NamespaceAttr

SpecNs == InitNs /\ [][NextNs]_vars

Kinds(c) == [i \in 1..Len(c) |-> c[i].kind]

\* C8: resolving __torch__ yields a class namespace; selecting attribute a on
\* a namespace rooted at Q yields the class handle of the type registered at
\* Q.a, else a namespace rooted at Q.a, never a failure; with a type at
\* __torch__.A.B and none at __torch__.A the chain __torch__, .A, .B is
\* namespace, namespace, class handle, and __torch__.A.C is a namespace.
C8_NamespaceChain ==
  /\ (path # <<>> /\ path[1] = <<"__torch__">>) => chain[1] = ClassNamespaceValue(<< <<"__torch__">> >>)
  /\ Len(chain) = Len(path)
  /\ \A k \in 2..Len(path) :
       LET Q == SubSeq(path, 1, k - 1)
           Qa == SubSeq(path, 1, k)
       IN  /\ chain[k - 1] = ClassNamespaceValue(Q)
           /\ chain[k] = IF Qa \in DOMAIN registry THEN ClassValue(Qa, registry[Qa])
                         ELSE ClassNamespaceValue(Qa)
  /\ (/\ << <<"__torch__">>, <<"A">>, <<"B">> >> \in DOMAIN registry
      /\ << <<"__torch__">>, <<"A">> >> \notin DOMAIN registry) =>
       /\ path = << <<"__torch__">>, <<"A">>, <<"B">> >> =>
            Kinds(chain) = <<"Class Namespace", "Class Namespace", "ClassValue">>
       /\ path = << <<"__torch__">>, <<"A">>, <<"C">> >> =>
            Kinds(chain) = <<"Class Namespace", "Class Namespace", "Class Namespace">>

\* C8 witness: the chain __torch__, .A, .B reached the class registered at
\* __torch__.A.B through two namespaces.
C8_Witness ==
  /\ path = << <<"__torch__">>, <<"A">>, <<"B">> >>
  /\ << <<"A">> >> \in DOMAIN registry
  /\ Kinds(chain) = <<"Class Namespace", "Class Namespace", "ClassValue">>
  /\ chain[3].type = registry[path]

====
